---- MODULE Spec2Model ----
(***************************************************************************)
(* Model of the two Streamlit scripts of the repository:                   *)
(*   optimal_consumption_app.py  the optimal-bundle solvers, the chart     *)
(*                               and the per-run compute/display logic     *)
(*   cobb_douglas_app.py         the indifference-curve viewer and its     *)
(*                               session_state                             *)
(*                                                                         *)
(* Numbers.  The widgets deliver Python floats.  The model carries them as *)
(* exact rationals [num, den] in lowest terms, so + - * / are exact: the   *)
(* model's operands are far inside the double range and the rounding of    *)
(* those four operations (at most one unit in the last place) is not       *)
(* modelled.  The power operator ** is different: on moderate operands it  *)
(* leaves the double range, where Python raises OverflowError (result too  *)
(* large) or returns 0.0 (result too small), and a product of two powers   *)
(* can become inf.  Pow and FloatMul model that range behaviour from a     *)
(* bracket of the base-2 logarithm of the exact result; where the bracket  *)
(* straddles a threshold every outcome the bracket allows is kept.         *)
(***************************************************************************)
EXTENDS Integers, Sequences, FiniteSets, TLC

VARIABLES M, p_x, p_y, utility_type, alpha, beta, compute, called, result,
          chart, text, error,
          ss_alpha, ss_beta, alpha_input, beta_input, update, fig

vars == <<M, p_x, p_y, utility_type, alpha, beta, compute, called, result,
          chart, text, error,
          ss_alpha, ss_beta, alpha_input, beta_input, update, fig>>

consumptionVars == <<M, p_x, p_y, utility_type, alpha, beta, compute, called,
                     result, chart, text, error>>

viewerVars == <<ss_alpha, ss_beta, alpha_input, beta_input, update, fig>>

(***************************************************************************)
(* Exact rational arithmetic.                                              *)
(***************************************************************************)
Abs(i) == IF i < 0 THEN -i ELSE i

RECURSIVE GCD(_, _)
GCD(a, b) == IF b = 0 THEN a ELSE GCD(b, a % b)

\* the rational n/d (d # 0) in lowest terms with a positive denominator
Q(n, d) ==
    LET g == GCD(Abs(n), Abs(d))
        s == IF d < 0 THEN -1 ELSE 1
    IN  [num |-> s * (n \div g), den |-> s * (d \div g)]

Zero == Q(0, 1)
One == Q(1, 1)

QNeg(a) == [num |-> -a.num, den |-> a.den]

QAdd(a, b) ==
    LET g == GCD(a.den, b.den)
    IN  Q(a.num * (b.den \div g) + b.num * (a.den \div g), (a.den \div g) * b.den)

QSub(a, b) == QAdd(a, QNeg(b))

\* cross-reduced before multiplying, so the products stay small
QMul(a, b) ==
    LET g1 == GCD(Abs(a.num), b.den)
        g2 == GCD(Abs(b.num), a.den)
    IN  IF a.num = 0 \/ b.num = 0 THEN Zero
        ELSE Q((a.num \div g1) * (b.num \div g2), (a.den \div g2) * (b.den \div g1))

\* b # 0: the callers test the divisor first (a zero divisor raises)
QInv(b) == Q(b.den, b.num)
QDiv(a, b) == QMul(a, QInv(b))

QAbs(a) == [num |-> Abs(a.num), den |-> a.den]

\* a < b, by comparing integer parts and then the reciprocals of the
\* fractional parts (no cross product, so no overflow)
RECURSIVE QLess(_, _)
QLess(a, b) ==
    LET fa == a.num \div a.den
        fb == b.num \div b.den
        ra == a.num - fa * a.den
        rb == b.num - fb * b.den
    IN  IF fa # fb THEN fa < fb
        ELSE IF rb = 0 THEN FALSE
        ELSE IF ra = 0 THEN TRUE
        ELSE QLess([num |-> b.den, den |-> rb], [num |-> a.den, den |-> ra])

QLeq(a, b) == ~QLess(b, a)
QMax(a, b) == IF QLess(a, b) THEN b ELSE a
QMin(a, b) == IF QLess(b, a) THEN b ELSE a
QPos(a) == a.num > 0

(***************************************************************************)
(* The double range, as far as ** and the product of two powers meet it.   *)
(* A positive real v is described by a bracket lo <= log2(v) <= hi.        *)
(***************************************************************************)
\* Python raises OverflowError from x ** a when the result reaches 2^1024
DoubleMaxExp == 1024
\* a positive result at or below 2^-1075 rounds to 0.0
DoubleMinExp == -1075

RECURSIVE ILog2(_)
ILog2(m) == IF m < 2 THEN 0 ELSE 1 + ILog2(m \div 2)

CeilLog2(m) == IF m <= 1 THEN 0 ELSE ILog2(m - 1) + 1

\* floor(log2(q)) of a positive rational
FloorLog2(q) ==
    IF q.num >= q.den THEN ILog2(q.num \div q.den)
    ELSE -CeilLog2((q.den + q.num - 1) \div q.num)

IsPow2(q) ==
    \/ q.den = 1 /\ q.num = 2 ^ ILog2(q.num)
    \/ q.num = 1 /\ q.den = 2 ^ ILog2(q.den)

Pow2(k) == IF k >= 0 THEN Q(2 ^ k, 1) ELSE Q(1, 2 ^ (-k))

\* 2^(j/8) for j = 1..7, in thousandths, rounded down and rounded up
EighthRoots ==
    <<[dn |-> 1090, up |-> 1091], [dn |-> 1189, up |-> 1190],
      [dn |-> 1296, up |-> 1297], [dn |-> 1414, up |-> 1415],
      [dn |-> 1542, up |-> 1543], [dn |-> 1681, up |-> 1682],
      [dn |-> 1834, up |-> 1835]>>

\* lo <= log2(q) <= hi for a positive rational q, to an eighth: q is
\* compared with 2^k * 2^(j/8), k = floor(log2(q)); a power of two is exact
Log2Bracket(q) ==
    LET k == FloorLog2(q)
        above == {j \in 1..7 :
                    QLeq(QMul(Q(EighthRoots[j].up, 1000), Pow2(k)), q)}
        below == {j \in 1..7 :
                    QLeq(q, QMul(Q(EighthRoots[j].dn, 1000), Pow2(k)))}
        jlo == IF above = {} THEN 0 ELSE CHOOSE j \in above : \A i \in above : i <= j
        jhi == IF below = {} THEN 8 ELSE CHOOSE j \in below : \A i \in below : j <= i
    IN  IF IsPow2(q) THEN [lo |-> Q(k, 1), hi |-> Q(k, 1)]
        ELSE [lo |-> Q(8 * k + jlo, 8), hi |-> Q(8 * k + jhi, 8)]

\* log2(x^a) = a * log2(x), for x > 0 and a > 0
PowBracket(x, a) ==
    [lo |-> QMul(Log2Bracket(x).lo, a), hi |-> QMul(Log2Bracket(x).hi, a)]

\* what a double of that size is: a bracket wholly on one side of a
\* threshold gives one answer
RangeOutcomes(b, over) ==
    (IF QLeq(Q(DoubleMaxExp, 1), b.hi) THEN {over} ELSE {})
    \cup (IF QLeq(b.lo, Q(DoubleMinExp, 1)) THEN {"zero"} ELSE {})
    \cup (IF QLess(b.lo, Q(DoubleMaxExp, 1)) /\ QLess(Q(DoubleMinExp, 1), b.hi)
          THEN {"finite"} ELSE {})

\* x ** a on floats, x >= 0 and a > 0: "OverflowError", "zero" or "finite"
Pow(x, a) ==
    IF x.num = 0 THEN {"zero"}
    ELSE RangeOutcomes(PowBracket(x, a), "OverflowError")

\* the values a float expression of the model can have
RatVal(q) == [kind |-> "rat", q |-> q]
PowVal(x, a, y, b) == [kind |-> "pow", x |-> x, a |-> a, y |-> y, b |-> b]
Inf == [kind |-> "inf"]

\* (x ** a) * (y ** b) with both powers finite and positive: the product
\* of two doubles never raises, it becomes inf or 0.0 outside the range
FloatMul(x, a, y, b) ==
    LET bx == PowBracket(x, a)
        by == PowBracket(y, b)
        bp == [lo |-> QAdd(bx.lo, by.lo), hi |-> QAdd(bx.hi, by.hi)]
    IN  {IF o = "inf" THEN Inf
         ELSE IF o = "zero" THEN RatVal(Zero)
         ELSE PowVal(x, a, y, b) : o \in RangeOutcomes(bp, "inf")}

(***************************************************************************)
(* optimal_consumption_app.py: the three solvers.                          *)
(* A solver's outcome is a record: raised = "none" and the returned tuple, *)
(* or the exception it raised.  a / b raises ZeroDivisionError when b = 0. *)
(***************************************************************************)
Returned(x, y, U) == [raised |-> "none", x |-> x, y |-> y, U |-> U]
Raised(e) == [raised |-> e, x |-> Zero, y |-> Zero, U |-> RatVal(Zero)]

\* U = (x ** a) * (y ** b): the set of outcomes of that line
PowerProduct(x, y, a, b) ==
    UNION {
      IF ox = "OverflowError" THEN {Raised("OverflowError")}
      ELSE UNION {
        IF oy = "OverflowError" THEN {Raised("OverflowError")}
        ELSE IF ox = "zero" \/ oy = "zero" THEN {Returned(x, y, RatVal(Zero))}
        ELSE {Returned(x, y, U) : U \in FloatMul(x, a, y, b)}
        : oy \in Pow(y, b)}
      : ox \in Pow(x, a)}

cobb_douglas_opt(px, py, m, a, b) ==
    IF QAdd(a, b).num = 0 \/ px.num = 0 \/ py.num = 0
    THEN {Raised("ZeroDivisionError")}
    ELSE LET x == QDiv(QMul(QDiv(a, QAdd(a, b)), m), px)
             y == QDiv(QMul(QDiv(b, QAdd(a, b)), m), py)
         IN  PowerProduct(x, y, a, b)

\* leontief_opt with y taken as x / k instead of k * x
leontief_opt_inverted(px, py, m, a, b) ==
    IF b.num = 0 \/ a.num = 0 THEN Raised("ZeroDivisionError")
    ELSE LET k == QDiv(a, b)
         IN  IF QAdd(px, QMul(py, k)).num = 0 THEN Raised("ZeroDivisionError")
             ELSE LET x == QDiv(m, QAdd(px, QMul(py, k)))
                      y == QDiv(x, k)
                      U == QMin(QMul(a, x), QMul(b, y))
                  IN  Returned(x, y, RatVal(U))

leontief_opt(px, py, m, a, b) ==
    IF b.num = 0 THEN Raised("ZeroDivisionError")
    ELSE LET k == QDiv(a, b)
         IN  IF QAdd(px, QMul(py, k)).num = 0 THEN Raised("ZeroDivisionError")
             ELSE LET x == QDiv(m, QAdd(px, QMul(py, k)))
                      y == QMul(k, x)
                      U == QMin(QMul(a, x), QMul(b, y))
                  IN  Returned(x, y, RatVal(U))

\* tol = 1e-9
TolDen == 1000000000
tol == Q(1, TolDen)

\* linear_opt with the corner test turned round
linear_opt_swapped(px, py, m, a, b) ==
    IF b.num = 0 \/ py.num = 0 \/ px.num = 0
    THEN [raised |-> "ZeroDivisionError", x |-> Zero, y |-> Zero,
          U |-> RatVal(Zero), status |-> "none"]
    ELSE LET slope_IC == QDiv(a, b)
             slope_BL == QDiv(px, py)
         IN  IF QLess(QAbs(QSub(slope_IC, slope_BL)), tol)
             THEN [raised |-> "none",
                   x |-> QDiv(QDiv(m, px), Q(2, 1)),
                   y |-> QDiv(QDiv(m, py), Q(2, 1)),
                   U |-> RatVal(QMul(a, QDiv(m, px))), status |-> "many"]
             ELSE IF QLess(slope_IC, slope_BL)
             THEN [raised |-> "none", x |-> QDiv(m, px), y |-> Zero,
                   U |-> RatVal(QMul(a, QDiv(m, px))), status |-> "corner_x"]
             ELSE [raised |-> "none", x |-> Zero, y |-> QDiv(m, py),
                   U |-> RatVal(QMul(b, QDiv(m, py))), status |-> "corner_y"]

linear_opt(px, py, m, a, b) ==
    IF b.num = 0 \/ py.num = 0 \/ px.num = 0
    THEN [raised |-> "ZeroDivisionError", x |-> Zero, y |-> Zero,
          U |-> RatVal(Zero), status |-> "none"]
    ELSE LET slope_IC == QDiv(a, b)
             slope_BL == QDiv(px, py)
         IN  IF QLess(QAbs(QSub(slope_IC, slope_BL)), tol)
             THEN [raised |-> "none",
                   x |-> QDiv(QDiv(m, px), Q(2, 1)),
                   y |-> QDiv(QDiv(m, py), Q(2, 1)),
                   U |-> RatVal(QMul(a, QDiv(m, px))), status |-> "many"]
             ELSE IF QLess(slope_BL, slope_IC)
             THEN [raised |-> "none", x |-> QDiv(m, px), y |-> Zero,
                   U |-> RatVal(QMul(a, QDiv(m, px))), status |-> "corner_x"]
             ELSE [raised |-> "none", x |-> Zero, y |-> QDiv(m, py),
                   U |-> RatVal(QMul(b, QDiv(m, py))), status |-> "corner_y"]

(***************************************************************************)
(* optimal_consumption_app.py: the widgets.                                *)
(***************************************************************************)
Linear == "Linear (perfect substitutes)"
Leontief == "Leontief (perfect complements)"
CobbDouglas == "Cobb-Douglas"
UtilityOptions == {Linear, Leontief, CobbDouglas}

\* s.startswith(p), for the option strings and the prefixes the script tests
StartsWith(s, p) ==
    \/ s = Linear /\ p = "Linear"
    \/ s = Leontief /\ p = "Leontief"
    \/ s = CobbDouglas /\ p = "Cobb"

\* the values the model types into the number inputs: every one is at or
\* above the widget's min_value of 0.01, and the widget's default is among
\* them
MinValue == Q(1, 100)
MaxBudget == 2
MaxPrice == 2
DefaultM == Q(10, 1)
DefaultPrice == One
DefaultExponent == Q(1, 2)
Budgets == {Q(m, 1) : m \in 1..MaxBudget} \cup {DefaultM}
PricesX == {Q(p, 1) : p \in 1..MaxPrice} \cup {DefaultPrice, MinValue}
PricesY == {Q(p, 1) : p \in 1..MaxPrice} \cup {DefaultPrice, Q(40001, 100)}
Alphas == {DefaultExponent, MinValue, One, Q(500, 1)}
Betas == {DefaultExponent, One, Q(400, 1)}

(***************************************************************************)
(* optimal_consumption_app.py: the chart.                                  *)
(***************************************************************************)
NoChart ==
    [drawn |-> FALSE, ic |-> "none", ic_from |-> Zero, ic_to |-> Zero,
     marker |-> FALSE, marker_x |-> Zero, marker_y |-> Zero]

\* the x-range over which the indifference curve is laid out
IcRange(x_max, ut, a, U_star) ==
    IF StartsWith(ut, "Linear") THEN [ic |-> "Linear", from |-> Zero, to |-> x_max]
    ELSE IF StartsWith(ut, "Leontief")
    THEN [ic |-> "Leontief", from |-> QDiv(U_star.q, a), to |-> x_max]
    ELSE [ic |-> "Cobb-Douglas",
          from |-> QMax(Q(1, 1000000), QMul(x_max, Q(1, 100))), to |-> x_max]

plot_budget_and_ic(m, px, py, ut, a, b, x_star, y_star, U_star, status_flag) ==
    LET x_max == QDiv(m, px)
        r == IcRange(x_max, ut, a, U_star)
    IN  [drawn |-> TRUE, ic |-> r.ic, ic_from |-> r.from, ic_to |-> r.to,
         marker |-> (status_flag # "many"),
         marker_x |-> IF status_flag # "many" THEN x_star ELSE Zero,
         marker_y |-> IF status_flag # "many" THEN y_star ELSE Zero]

(***************************************************************************)
(* optimal_consumption_app.py: one run of the script.                      *)
(* A page is what the run left on screen: the solvers it called, the       *)
(* result it unpacked, the chart, the text, and the exception that ended   *)
(* it ("none" when it ran to the end).                                     *)
(***************************************************************************)
NoResult ==
    [x_star |-> Zero, y_star |-> Zero, U_star |-> RatVal(Zero), status |-> "none"]

NoText == [subheader |-> "none", shows |-> <<>>]

EmptyPage ==
    [called |-> <<>>, result |-> NoResult, chart |-> NoChart, text |-> NoText,
     error |-> "none"]

Aborted(solver, e) ==
    [called |-> <<solver>>, result |-> NoResult, chart |-> NoChart,
     text |-> NoText, error |-> e]

Shown(solver, m, px, py, ut, a, b, r, status, subheader, shows) ==
    [called |-> <<solver>>,
     result |-> [x_star |-> r.x, y_star |-> r.y, U_star |-> r.U, status |-> status],
     chart |-> plot_budget_and_ic(m, px, py, ut, a, b, r.x, r.y, r.U, status),
     text |-> [subheader |-> subheader, shows |-> shows],
     error |-> "none"]

\* the pages the main compute/display logic can leave
MainLogic(pressed, m, px, py, ut, a, b) ==
    IF ~pressed THEN {EmptyPage}
    ELSE IF StartsWith(ut, "Cobb")
    THEN {IF r.raised # "none" THEN Aborted("cobb_douglas_opt", r.raised)
          ELSE Shown("cobb_douglas_opt", m, px, py, ut, a, b, r, "single",
                     "Optimal choice (Cobb-Douglas)", <<"x*", "y*", "U*">>)
          : r \in cobb_douglas_opt(px, py, m, a, b)}
    ELSE IF StartsWith(ut, "Leontief")
    THEN LET r == leontief_opt(px, py, m, a, b)
         IN  {IF r.raised # "none" THEN Aborted("leontief_opt", r.raised)
              ELSE Shown("leontief_opt", m, px, py, ut, a, b, r, "single",
                         "Optimal choice (Leontief)", <<"x*", "y*", "U*">>)}
    ELSE LET r == linear_opt(px, py, m, a, b)
         IN  {IF r.raised # "none" THEN Aborted("linear_opt", r.raised)
              ELSE Shown("linear_opt", m, px, py, ut, a, b, r, r.status,
                         "Optimal choice (Linear)",
                         IF r.status = "many" THEN <<"every point optimal", "U*">>
                         ELSE <<"x*", "y*", "U*">>)}

\* a run of the script with the widgets at these values
ScriptRun(pressed, m, px, py, ut, a, b) ==
    /\ M' = m /\ p_x' = px /\ p_y' = py /\ utility_type' = ut
    /\ alpha' = a /\ beta' = b
    /\ compute' = pressed
    /\ \E page \in MainLogic(pressed, m, px, py, ut, a, b) :
         /\ called' = page.called
         /\ result' = page.result
         /\ chart' = page.chart
         /\ text' = page.text
         /\ error' = page.error
    /\ UNCHANGED viewerVars

\* changing a widget reruns the script; the button reads False in that run
ChangeM == \E v \in Budgets \ {M} :
    ScriptRun(FALSE, v, p_x, p_y, utility_type, alpha, beta)
ChangePx == \E v \in PricesX \ {p_x} :
    ScriptRun(FALSE, M, v, p_y, utility_type, alpha, beta)
ChangePy == \E v \in PricesY \ {p_y} :
    ScriptRun(FALSE, M, p_x, v, utility_type, alpha, beta)
ChangeUtility == \E v \in UtilityOptions \ {utility_type} :
    ScriptRun(FALSE, M, p_x, p_y, v, alpha, beta)
ChangeAlpha == \E v \in Alphas \ {alpha} :
    ScriptRun(FALSE, M, p_x, p_y, utility_type, v, beta)
ChangeBeta == \E v \in Betas \ {beta} :
    ScriptRun(FALSE, M, p_x, p_y, utility_type, alpha, v)
\* pressing the button reruns the script with the button reading True
PressCompute == \E pressed \in {TRUE} :
    ScriptRun(pressed, M, p_x, p_y, utility_type, alpha, beta)

(***************************************************************************)
(* cobb_douglas_app.py: the indifference-curve viewer.                     *)
(***************************************************************************)
\* number_input(min_value=0.1, max_value=2.0, step=0.1): tenths, of which
\* the model types the first MaxTenths
MaxTenths == 6
ViewerInputs == {Q(t, 10) : t \in 1..MaxTenths}
StoredDefault == Q(1, 2)

x_ref == Q(5, 1)
y_refs == <<Q(1, 1), Q(2, 1), Q(3, 1), Q(4, 1), Q(5, 1), Q(6, 1), Q(7, 1)>>

\* U_levels = (x_ref ** alpha) * (y_refs ** beta)
U_levels(a, b) == [i \in 1..Len(y_refs) |-> PowVal(x_ref, a, y_refs[i], b)]

\* the figure: the surface U = X^alpha Y^beta it contours, one contour per
\* level, one labelled point per reference point
Figure(a, b) ==
    [alpha |-> a, beta |-> b,
     contours |-> U_levels(a, b),
     points |-> [i \in 1..Len(y_refs) |->
                   [x |-> x_ref, y |-> y_refs[i], U |-> U_levels(a, b)[i]]]]

\* ViewerRun storing the inputs on every run, pressed or not
ViewerRun_always_store(pressed, ai, bi) ==
    /\ alpha_input' = ai
    /\ beta_input' = bi
    /\ update' = pressed
    /\ ss_alpha' = ai
    /\ ss_beta' = bi
    /\ fig' = Figure(ss_alpha', ss_beta')
    /\ UNCHANGED consumptionVars

\* one run of the viewer script with the number inputs at ai, bi
ViewerRun(pressed, ai, bi) ==
    /\ alpha_input' = ai
    /\ beta_input' = bi
    /\ update' = pressed
    /\ ss_alpha' = IF pressed THEN ai ELSE ss_alpha
    /\ ss_beta' = IF pressed THEN bi ELSE ss_beta
    /\ fig' = Figure(ss_alpha', ss_beta')
    /\ UNCHANGED consumptionVars

ChangeAlphaInput == \E v \in ViewerInputs \ {alpha_input} :
    ViewerRun(FALSE, v, beta_input)
ChangeBetaInput == \E v \in ViewerInputs \ {beta_input} :
    ViewerRun(FALSE, alpha_input, v)
PressUpdate == \E pressed \in {TRUE} :
    ViewerRun(pressed, alpha_input, beta_input)

(***************************************************************************)
(* The state after each script's first run, and the specifications.        *)
(***************************************************************************)
Init ==
    /\ M = DefaultM /\ p_x = DefaultPrice /\ p_y = DefaultPrice
    /\ utility_type = Linear
    /\ alpha = DefaultExponent /\ beta = DefaultExponent
    /\ compute = FALSE
    /\ called = EmptyPage.called
    /\ result = EmptyPage.result
    /\ chart = EmptyPage.chart
    /\ text = EmptyPage.text
    /\ error = EmptyPage.error
    /\ ss_alpha = StoredDefault /\ ss_beta = StoredDefault
    /\ alpha_input = StoredDefault /\ beta_input = StoredDefault
    /\ update = FALSE
    /\ fig = Figure(StoredDefault, StoredDefault)

Next ==
    \/ ChangeM
    \/ ChangePx
    \/ ChangePy
    \/ ChangeUtility
    \/ ChangeAlpha
    \/ ChangeBeta
    \/ PressCompute

Spec == Init /\ [][Next]_vars

ViewerNext ==
    \/ ChangeAlphaInput
    \/ ChangeBetaInput
    \/ PressUpdate

ViewerSpec == Init /\ [][ViewerNext]_vars

(***************************************************************************)
(* Properties.  RanSolver(f) is a state left by a run in which the button  *)
(* was pressed and the solver f returned.                                  *)
(***************************************************************************)
RanSolver(f) == compute /\ called = <<f>> /\ error = "none"

Two == Q(2, 1)
SlopeGap == QAbs(QSub(QDiv(alpha, beta), QDiv(p_x, p_y)))
Spend(x, y) == QAdd(QMul(p_x, x), QMul(p_y, y))

\* C1: with the Linear family selected, a compute calls linear_opt, which
\* returns; if |alpha/beta - p_x/p_y| < 1e-9 the result is 'many' with the
\* midpoint (M/(2 p_x), M/(2 p_y)) and U* = alpha M/p_x; otherwise if
\* alpha/beta > p_x/p_y it is 'corner_x' with (M/p_x, 0) and U* = alpha M/p_x;
\* otherwise 'corner_y' with (0, M/p_y) and U* = beta M/p_y.  In a corner
\* exactly one of x*, y* is zero and the other good exhausts the budget.
C1_LinearClassification ==
    (compute /\ utility_type = Linear) =>
      /\ RanSolver("linear_opt")
      /\ IF QLess(SlopeGap, Q(1, TolDen))
         THEN /\ result.status = "many"
              /\ result.x_star = QDiv(M, QMul(Two, p_x))
              /\ result.y_star = QDiv(M, QMul(Two, p_y))
              /\ result.U_star = RatVal(QDiv(QMul(alpha, M), p_x))
         ELSE IF QLess(QDiv(p_x, p_y), QDiv(alpha, beta))
         THEN /\ result.status = "corner_x"
              /\ result.x_star = QDiv(M, p_x) /\ result.y_star = Zero
              /\ result.U_star = RatVal(QDiv(QMul(alpha, M), p_x))
         ELSE /\ result.status = "corner_y"
              /\ result.x_star = Zero /\ result.y_star = QDiv(M, p_y)
              /\ result.U_star = RatVal(QDiv(QMul(beta, M), p_y))
      /\ result.status \in {"corner_x", "corner_y"} =>
           /\ (result.x_star = Zero) # (result.y_star = Zero)
           /\ Spend(result.x_star, result.y_star) = M

\* a corner on the y axis, reached with unequal prices and unequal weights
C1_Witness ==
    /\ RanSolver("linear_opt") /\ result.status = "corner_y"
    /\ p_x # p_y /\ alpha # beta /\ QPos(result.y_star)

\* the feasible bundle that spends the share t of the budget on x
BudgetLineBundle(t) ==
    [x |-> QDiv(QMul(t, M), p_x), y |-> QDiv(QMul(QSub(One, t), M), p_y)]
LinearUtility(bundle) == QAdd(QMul(alpha, bundle.x), QMul(beta, bundle.y))
BudgetShares == {Zero, Q(1, 4), Q(1, 2), One}

\* u and v agree to within 1e-9 of the larger of the two
WithinTolerance(u, v) ==
    \/ u = v
    \/ QLeq(QDiv(QAbs(QSub(u, v)), QMax(QAbs(u), QAbs(v))), Q(1, TolDen))

\* C2: whenever linear_opt returns 'many', any two bundles on the budget
\* line have equal linear utility within tolerance, and that common value
\* is the reported U* = alpha M/p_x = beta M/p_y.
C2_IndeterminateEqualUtility ==
    (RanSolver("linear_opt") /\ result.status = "many") =>
      /\ \A t1, t2 \in BudgetShares :
           WithinTolerance(LinearUtility(BudgetLineBundle(t1)),
                           LinearUtility(BudgetLineBundle(t2)))
      /\ \A t \in BudgetShares :
           WithinTolerance(LinearUtility(BudgetLineBundle(t)), result.U_star.q)
      /\ WithinTolerance(QDiv(QMul(alpha, M), p_x), QDiv(QMul(beta, M), p_y))

\* C3: with the Cobb-Douglas family selected, a compute calls
\* cobb_douglas_opt, which returns the expenditure-share bundle
\* x* = (alpha/(alpha+beta)) M/p_x, y* = (beta/(alpha+beta)) M/p_y, and
\* that bundle exhausts the budget: p_x x* + p_y y* = M.
C3_CobbDouglasBundle ==
    (compute /\ utility_type = CobbDouglas) =>
      /\ RanSolver("cobb_douglas_opt")
      /\ result.x_star = QDiv(QMul(alpha, M), QMul(QAdd(alpha, beta), p_x))
      /\ result.y_star = QDiv(QMul(beta, M), QMul(QAdd(alpha, beta), p_y))
      /\ Spend(result.x_star, result.y_star) = M

\* C4: with the Leontief family selected, a compute calls leontief_opt,
\* which returns a bundle with alpha x* = beta y* and p_x x* + p_y y* = M,
\* and a utility equal to both alpha x* and beta y*.
C4_LeontiefBundle ==
    (compute /\ utility_type = Leontief) =>
      /\ RanSolver("leontief_opt")
      /\ QMul(alpha, result.x_star) = QMul(beta, result.y_star)
      /\ Spend(result.x_star, result.y_star) = M
      /\ result.U_star = RatVal(QMul(alpha, result.x_star))
      /\ result.U_star = RatVal(QMul(beta, result.y_star))

\* a Leontief optimum off the diagonal: unequal weights and unequal prices
C4_Witness ==
    /\ RanSolver("leontief_opt") /\ alpha # beta /\ p_x # p_y
    /\ result.x_star # result.y_star /\ QPos(result.U_star.q)

\* u < v for two values the solvers return.  Two power products with the
\* same exponents are ordered by their bases when both bases move the same
\* way (as they do when only the budget changes), otherwise by their
\* logarithm brackets.
ValBracket(u) ==
    LET bx == PowBracket(u.x, u.a)
        by == PowBracket(u.y, u.b)
    IN  [lo |-> QAdd(bx.lo, by.lo), hi |-> QAdd(bx.hi, by.hi)]

ValLess(u, v) ==
    IF u.kind = "inf" THEN FALSE
    ELSE IF v.kind = "inf" THEN TRUE
    ELSE IF u.kind = "rat" /\ v.kind = "rat" THEN QLess(u.q, v.q)
    ELSE IF u.kind = "rat" THEN ~QPos(u.q)
    ELSE IF v.kind = "rat" THEN FALSE
    ELSE IF u.a = v.a /\ u.b = v.b /\ QLeq(u.x, v.x) /\ QLeq(u.y, v.y)
    THEN u.x # v.x \/ u.y # v.y
    ELSE IF u.a = v.a /\ u.b = v.b /\ QLeq(v.x, u.x) /\ QLeq(v.y, u.y)
    THEN FALSE
    ELSE QLess(ValBracket(u).hi, ValBracket(v).lo)

\* C5: for each family and fixed p_x, p_y, alpha, beta, the utility the
\* solver returns for a larger budget is strictly greater than the one it
\* returns for a smaller budget.
C5_StrictlyMonotoneInBudget ==
    (compute /\ error = "none") =>
      \A m2 \in Budgets : QLess(M, m2) =>
        \A page \in MainLogic(TRUE, m2, p_x, p_y, utility_type, alpha, beta) :
          page.error = "none" => ValLess(result.U_star, page.result.U_star)

\* C6: on every compute the marker is drawn if and only if the status is
\* not 'many'; 'many' arises only with the Linear family, and for
\* Cobb-Douglas and Leontief the status is 'single' and the marker is drawn
\* at (x*, y*).
C6_MarkerIffUnique ==
    compute =>
      /\ chart.marker <=> (result.status # "many")
      /\ result.status = "many" => utility_type = Linear
      /\ utility_type \in {CobbDouglas, Leontief} =>
           /\ result.status = "single"
           /\ chart.marker
           /\ chart.marker_x = result.x_star
           /\ chart.marker_y = result.y_star

\* C8: for strictly positive inputs every solver returns without raising,
\* and the returned bundle has x* >= 0 and y* >= 0.
C8_SolversTotal ==
    compute =>
      /\ error = "none"
      /\ QLeq(Zero, result.x_star)
      /\ QLeq(Zero, result.y_star)

\* C9: whenever the Cobb-Douglas chart is drawn, the optimal x* lies inside
\* the x-range over which the indifference curve is sampled:
\* max(1e-6, 0.01 M/p_x) <= x* <= M/p_x.
C9_OptimumInsideSampledRange ==
    (compute /\ utility_type = CobbDouglas /\ chart.drawn) =>
      /\ chart.ic_from = QMax(Q(1, 1000000), QDiv(M, QMul(Q(100, 1), p_x)))
      /\ chart.ic_to = QDiv(M, p_x)
      /\ QLeq(chart.ic_from, result.x_star)
      /\ QLeq(result.x_star, chart.ic_to)

SolverFor(ut) ==
    IF ut = CobbDouglas THEN "cobb_douglas_opt"
    ELSE IF ut = Leontief THEN "leontief_opt" ELSE "linear_opt"
FamilyOf(ut) ==
    IF ut = CobbDouglas THEN "Cobb-Douglas"
    ELSE IF ut = Leontief THEN "Leontief" ELSE "Linear"

\* C10: a run invokes a solver and produces a chart and result text if and
\* only if the button was pressed in that run; then exactly one solver runs,
\* the one of the selected family, and the curve drawn is of that family; a
\* run without the button produces no solver result.
C10_ComputeOnlyOnButton ==
    /\ compute <=> (Len(called) = 1 /\ chart.drawn /\ text.subheader # "none")
    /\ compute => /\ called = <<SolverFor(utility_type)>>
                  /\ chart.ic = FamilyOf(utility_type)
    /\ ~compute => /\ called = <<>>
                   /\ result = NoResult
                   /\ ~chart.drawn

\* C7: in the viewer the stored parameters start at (0.5, 0.5); a run
\* changes them only if 'Update Graph' was pressed in it, and then to the
\* values of the number inputs; a run without the button leaves them as
\* they were; and the curves of every run are those of the stored
\* parameters, not of the inputs.
C7_StoredParameters ==
    /\ ss_alpha = Q(5, 10) /\ ss_beta = Q(5, 10)
    /\ [][/\ update' => (ss_alpha' = alpha_input' /\ ss_beta' = beta_input')
          /\ ~update' => (ss_alpha' = ss_alpha /\ ss_beta' = ss_beta)]_vars
    /\ [](/\ fig.alpha = ss_alpha /\ fig.beta = ss_beta
          /\ \A i \in 1..7 :
               /\ fig.contours[i] = PowVal(Q(5, 1), ss_alpha, Q(i, 1), ss_beta)
               /\ fig.points[i].U = fig.contours[i])

\* after a commit, the inputs have moved on and the figure has not
C7_Witness ==
    /\ ~update
    /\ ss_alpha # Q(5, 10) /\ ss_beta # Q(5, 10)
    /\ alpha_input # ss_alpha /\ beta_input # ss_beta
    /\ fig.alpha = ss_alpha /\ fig.beta = ss_beta

====
